---- MODULE Spec2Model ----
(***************************************************************************)
(* Model of yt_dlp/extractor/withny.py: the cookie-backed session          *)
(* (WithnyBaseIE.bearer_token, WithnyBaseIE._perform_login) and the        *)
(* extractors built on it (WithnyLiveChannelIE, WithnyLiveRoomIE,          *)
(* WithnyArchiveIE, WithnyUserArchivesIE).                                 *)
(*                                                                         *)
(* Strings are sequences of symbols.  A symbol is one word, the blank " "  *)
(* or its percent-escape "%20", so that urllib.parse.quote/unquote and     *)
(* str.split() are computed, not assumed.  Times are seconds; a value in   *)
(* milliseconds is the record [s |-> seconds, ms |-> 0..999 or more].      *)
(* A network call returns a response body: transport failures are raised   *)
(* inside InfoExtractor._download_json, outside withny.py.                 *)
(***************************************************************************)
EXTENDS Integers, Sequences, FiniteSets, TLC

\* ---------------------------------------------------------------- bounds
MaxTime == 7200
TickStep == 1800
MaxStreams == 2
MaxArchives == 1
RandDenom == 16
SumDenom == 4

\* ------------------------------------------------------ program constants
MarginSeconds == 3600
RefreshLifetime == 2505600
MsPerSecond == 1000

Procs == {1, 2}

\* Python's None, as a string value that no cookie and no response holds
None == <<"\\None">>
\* a request header that is not sent at all
NoHeader == <<"\\NoHeader">>

TokenKey == "auth._token.local"
TokenExpKey == "auth._token_expiration.local"
RefreshKey == "auth._refresh_token.local"
RefreshExpKey == "auth._refresh_token_expiration.local"
CredentialKeys == {TokenKey, TokenExpKey, RefreshKey, RefreshExpKey}

\* ------------------------------------------------------------ pure helpers

\* urllib.parse.quote: the blank becomes its percent-escape
quote(s) == [i \in DOMAIN s |-> IF s[i] = " " THEN "%20" ELSE s[i]]

\* urllib.parse.unquote: the percent-escape becomes the blank again
unquote(s) == [i \in DOMAIN s |-> IF s[i] = "%20" THEN " " ELSE s[i]]

\* str.split(): the words of s, separated by runs of blanks
RECURSIVE split(_)
split(s) ==
  IF s = <<>> THEN <<>>
  ELSE IF Head(s) = " " THEN split(Tail(s))
  ELSE LET rest == split(Tail(s))
       IN IF Len(s) > 1 /\ s[2] # " "
          THEN <<(<<Head(s)>> \o Head(rest))>> \o Tail(rest)
          ELSE <<(<<Head(s)>>)>> \o rest

\* the JWTs of the model and the exp claim (seconds) each one carries
JwtClaims == [jwt1800 |-> 1800, jwt7200 |-> 7200, jwt10800 |-> 10800]

\* int(jwt_decode_hs256(word)['exp']) or 0: when the word is no JWT the
\* decoding raises, try_get swallows the exception and the result is 0
jwt_decode_hs256_exp(word) ==
  IF Len(word) = 1 /\ word[1] \in DOMAIN JwtClaims THEN JwtClaims[word[1]] ELSE 0

\* truth value of a Python string-or-None
Truthy(v) == v # None /\ v # <<>>

_parse_token_expire(token) ==
  IF token = None THEN 0
  ELSE LET words == split(token)
       IN IF words = <<>> THEN 0 ELSE jwt_decode_hs256_exp(words[Len(words)])

\* the transform argument of _get_cookie, by name: the default lambda x: x
\* or urllib.parse.unquote
Transform(name, x) == IF name = "unquote" THEN unquote(x) ELSE x

_get_cookie(c, key, transform) ==
  IF key \in DOMAIN c THEN Transform(transform, c[key]) ELSE None

\* n seconds as milliseconds (n * 1000, kept as seconds and milliseconds)
Ms(n) == [s |-> n, ms |-> 0]

\* a < b on millisecond values
MsLess(a, b) == a.s < b.s \/ (a.s = b.s /\ a.ms < b.ms)

\* float addition n + k/RandDenom for an integer n of magnitude 2^21..2^31:
\* the sum has fewer fraction bits than random.random() has, so the fraction
\* is rounded to the nearest representable one (ties to even); the result is
\* in units of 1/SumDenom and may be SumDenom, that is n + 1.0
FloatFraction(k) ==
  LET lo == (k * SumDenom) \div RandDenom
      rem == k * SumDenom - lo * RandDenom
  IN IF 2 * rem < RandDenom THEN lo
     ELSE IF 2 * rem > RandDenom THEN lo + 1
     ELSE IF lo % 2 = 0 THEN lo ELSE lo + 1

\* int((n + k/RandDenom) * 1000)
JitteredMs(n, k) ==
  LET j == FloatFraction(k)
  IN [s |-> n + (j \div SumDenom), ms |-> ((j % SumDenom) * MsPerSecond) \div SumDenom]

\* ------------------------------------------------------------------ state
VARIABLES cookies, now, pc, data, last, writer

vars == <<cookies, now, pc, data, last, writer>>

Call(ep, id, auth) == [ep |-> ep, id |-> id, auth |-> auth]

NoOp == [op |-> "none", calls |-> <<>>, warnings |-> <<>>, outcome |-> "none",
         id |-> 0, streams |-> <<>>, bearer |-> NoHeader, at |-> 0]

NoData == [tokenType |-> <<>>, token |-> <<>>, refreshToken |-> <<>>]

\* ------------------------------------------------------------- bearer_token
\* a bearer_token that forgets to URL-decode the cookie
bearer_token_raw(c, t) ==
  LET token == _get_cookie(c, TokenKey, "identity")
  IN [value |-> token,
      warnings |-> IF ~Truthy(token) THEN <<"login_hint">>
                   ELSE IF t > _parse_token_expire(token) THEN <<"expired">>
                   ELSE <<>>]

bearer_token(c, t) ==
  LET token == _get_cookie(c, TokenKey, "unquote")
  IN [value |-> token,
      warnings |-> IF ~Truthy(token) THEN <<"login_hint">>
                   ELSE IF t > _parse_token_expire(token) THEN <<"expired">>
                   ELSE <<>>]

\* ------------------------------------------------------------ initial state
BearerCookie(jwt) == quote(<<"Bearer", " ", jwt>>)

TokenCookieValues == {BearerCookie("jwt1800"), BearerCookie("jwt7200"), <<"opaque">>}

\* the cookies of an earlier complete login with the given JWT
FullStore(jwt) ==
  (TokenKey :> BearerCookie(jwt)) @@ (TokenExpKey :> Ms(JwtClaims[jwt]))
  @@ (RefreshKey :> <<"r0">>) @@ (RefreshExpKey :> Ms(JwtClaims[jwt] + RefreshLifetime))

\* no cookies, a token cookie alone, or a complete set
PairedStores ==
  {<<>>} \cup {(TokenKey :> v) : v \in TokenCookieValues}
         \cup {FullStore(j) : j \in {"jwt1800", "jwt7200"}}

\* cookies passed by hand can also hold an expiry without a refresh token
InitStores ==
  PairedStores \cup {(TokenKey :> BearerCookie("jwt1800")) @@ (TokenExpKey :> Ms(1800))}

InitRest ==
  /\ now = 0
  /\ data = [p \in Procs |-> NoData]
  /\ last = [p \in Procs |-> NoOp]
  /\ writer = [k \in CredentialKeys |-> 0]

Init ==
  /\ cookies \in InitStores
  /\ pc = [p \in Procs |-> IF p = 1 THEN "idle" ELSE "off"]
  /\ InitRest

Tick ==
  /\ now + TickStep <= MaxTime
  /\ now' = now + TickStep
  /\ UNCHANGED <<cookies, pc, data, last, writer>>

\* ------------------------------------------------------------ _perform_login
LoginJwts == {"jwt7200", "jwt10800"}
RefreshTokens == {"rA", "rB"}
LoginResponses ==
  [tokenType : {<<"Bearer">>}, token : {<<j>> : j \in LoginJwts},
   refreshToken : {<<r>> : r \in RefreshTokens}]

\* a set_cookie that leaves an existing cookie alone
set_cookie_keep(c, key, value) ==
  IF key \in DOMAIN c THEN c ELSE (key :> value) @@ c

\* self._set_cookie('www.withny.fun', key, str(value))
set_cookie(c, key, value) == (key :> value) @@ c

\* a check that forgets the one-hour margin
LoginSkipsNoMargin(c, t) ==
  t < _parse_token_expire(_get_cookie(c, TokenKey, "unquote"))

\* the early return when the stored token is valid for more than an hour
LoginSkips(c, t) ==
  t < _parse_token_expire(_get_cookie(c, TokenKey, "unquote")) - MarginSeconds

PerformLoginCheck(p) ==
  /\ pc[p] = "idle"
  /\ IF LoginSkips(cookies, now)
     THEN /\ pc' = [pc EXCEPT ![p] = "done"]
          /\ last' = [last EXCEPT ![p] = [NoOp EXCEPT !.op = "login", !.outcome = "skipped", !.at = now]]
     ELSE /\ pc' = [pc EXCEPT ![p] = "login_call"]
          /\ last' = [last EXCEPT ![p] = [NoOp EXCEPT !.op = "login", !.outcome = "running", !.at = now]]
  /\ data' = [data EXCEPT ![p] = NoData]
  /\ UNCHANGED <<cookies, now, writer>>

PerformLoginCall(p) ==
  /\ pc[p] = "login_call"
  /\ \E resp \in LoginResponses :
       /\ data' = [data EXCEPT ![p] = resp]
       /\ last' = [last EXCEPT ![p].calls = Append(@, Call("login", 0, NoHeader))]
  /\ pc' = [pc EXCEPT ![p] = "set_token"]
  /\ UNCHANGED <<cookies, now, writer>>

SetTokenCookie(p) ==
  /\ pc[p] = "set_token"
  /\ cookies' = set_cookie(cookies, TokenKey,
                           quote(data[p].tokenType \o <<" ">> \o data[p].token))
  /\ writer' = [writer EXCEPT ![TokenKey] = p]
  /\ pc' = [pc EXCEPT ![p] = "set_token_exp"]
  /\ UNCHANGED <<now, data, last>>

SetTokenExpCookie(p) ==
  /\ pc[p] = "set_token_exp"
  /\ cookies' = set_cookie(cookies, TokenExpKey,
                           Ms(_parse_token_expire(data[p].token)))
  /\ writer' = [writer EXCEPT ![TokenExpKey] = p]
  /\ pc' = [pc EXCEPT ![p] = "set_refresh"]
  /\ UNCHANGED <<now, data, last>>

\* a login that forgets to store the refresh token
SetRefreshCookieForgotten(p) ==
  /\ pc[p] = "set_refresh"
  /\ pc' = [pc EXCEPT ![p] = "set_refresh_exp"]
  /\ UNCHANGED <<cookies, writer, now, data, last>>

SetRefreshCookie(p) ==
  /\ pc[p] = "set_refresh"
  /\ cookies' = set_cookie(cookies, RefreshKey, data[p].refreshToken)
  /\ writer' = [writer EXCEPT ![RefreshKey] = p]
  /\ pc' = [pc EXCEPT ![p] = "set_refresh_exp"]
  /\ UNCHANGED <<now, data, last>>

SetRefreshExpCookie(p) ==
  /\ pc[p] = "set_refresh_exp"
  /\ \E k \in 0 .. RandDenom - 1 :
       cookies' = set_cookie(cookies, RefreshExpKey,
                    JitteredMs(_parse_token_expire(data[p].token) + RefreshLifetime, k))
  /\ writer' = [writer EXCEPT ![RefreshExpKey] = p]
  /\ pc' = [pc EXCEPT ![p] = "done"]
  /\ last' = [last EXCEPT ![p].outcome = "ok"]
  /\ UNCHANGED <<now, data>>

\* ------------------------------------------------------ WithnyLiveRoomIE
\* JSON null, and the absence of a key as dict.get reports it
JNull == "\\null"
ManifestUrl == "https://ivs.example/live.m3u8"

RoomInfos == [ivsPlaybackUrl : {JNull, ManifestUrl}]

\* truth value of a JSON string-or-null
JTruthy(v) == v # JNull /\ v # ""

\* WithnyLiveRoomIE._real_extract(room_id) on the record of the running
\* resolution: the rooms call with the bearer token, then the manifest
room_real_extract(rec, room_id, c, t, room_info) ==
  LET b == bearer_token(c, t)
      called == [rec EXCEPT !.calls = Append(@, Call("rooms", room_id, b.value)),
                            !.warnings = @ \o b.warnings,
                            !.bearer = b.value,
                            !.at = t]
  IN IF ~JTruthy(room_info.ivsPlaybackUrl)
     THEN [called EXCEPT !.outcome = "ExtractorError", !.id = 0]
     ELSE [called EXCEPT !.calls = Append(@, Call("manifest", room_id, NoHeader)),
                         !.outcome = "is_live", !.id = room_id]

\* a room URL given directly
RoomExtract(p) ==
  /\ pc[p] = "idle"
  /\ \E room_id \in 1 .. MaxStreams, room_info \in RoomInfos :
       last' = [last EXCEPT ![p] =
                  room_real_extract([NoOp EXCEPT !.op = "room"], room_id, cookies, now, room_info)]
  /\ pc' = [pc EXCEPT ![p] = "done"]
  /\ UNCHANGED <<cookies, now, data, writer>>

\* the room URL that a channel resolution returned as its url_result
RoomRedirect(p) ==
  /\ pc[p] = "redirect"
  /\ \E room_info \in RoomInfos :
       last' = [last EXCEPT ![p] =
                  room_real_extract(last[p], last[p].id, cookies, now, room_info)]
  /\ pc' = [pc EXCEPT ![p] = "done"]
  /\ UNCHANGED <<cookies, now, data, writer>>

\* ---------------------------------------------------- WithnyLiveChannelIE
StartTime == "2024-08-26T15:03:15Z"

\* the shapes of one entry of the /api/streams response
StreamShapes ==
  [actualStartedAt : {JNull, StartTime}, startedAt : {JNull, "", StartTime},
   streamingType : {"withny", "external"}]

\* the responses: up to MaxStreams entries, the i-th with uuid i
StreamLists ==
  UNION { { [i \in 1 .. n |-> [actualStartedAt |-> f[i].actualStartedAt,
                               startedAt |-> f[i].startedAt,
                               streamingType |-> f[i].streamingType,
                               uuid |-> i]] : f \in [1 .. n -> StreamShapes] }
          : n \in 0 .. MaxStreams }

\* a filter that lets every entry through
IsStartedAny(v) == TRUE

\* lambda _, v: v.get('actualStartedAt') or v.get('startedAt')
IsStarted(v) == JTruthy(v.actualStartedAt) \/ JTruthy(v.startedAt)

\* a choice of the last entry instead of the first
PickLast(streams) == streams[Len(streams)]

\* stream = streams[0]
PickStream(streams) == streams[1]

\* a test that never takes the room branch
IsWithnyNever(stream) == FALSE

\* stream.get('streamingType') == 'withny'
IsWithny(stream) == stream.streamingType = "withny"

ChannelExtract(p) ==
  /\ pc[p] = "idle"
  /\ \E streams_json \in StreamLists :
       LET streams == SelectSeq(streams_json, IsStarted)
           queried == [NoOp EXCEPT !.op = "channel",
                                   !.calls = <<Call("streams", 0, NoHeader)>>,
                                   !.streams = streams_json,
                                   !.at = now]
       IN IF streams = <<>>
          THEN /\ last' = [last EXCEPT ![p] = [queried EXCEPT !.outcome = "UserNotLive"]]
               /\ pc' = [pc EXCEPT ![p] = "done"]
          ELSE LET stream == PickStream(streams)
                   stream_id == stream.uuid
               IN IF IsWithny(stream)
                  THEN /\ last' = [last EXCEPT ![p] =
                                     [queried EXCEPT !.outcome = "url_result", !.id = stream_id]]
                       /\ pc' = [pc EXCEPT ![p] = "redirect"]
                  ELSE LET b == bearer_token(cookies, now)
                       IN /\ last' = [last EXCEPT ![p] =
                                        [queried EXCEPT
                                           !.calls = @ \o <<Call("playback-url", stream_id, b.value),
                                                            Call("manifest", stream_id, NoHeader)>>,
                                           !.warnings = b.warnings,
                                           !.bearer = b.value,
                                           !.outcome = "is_live",
                                           !.id = stream_id]]
                          /\ pc' = [pc EXCEPT ![p] = "done"]
  /\ UNCHANGED <<cookies, now, data, writer>>

\* --------------------------------- WithnyArchiveIE, WithnyUserArchivesIE
\* _download_webpage_nuxt followed by _parse_archive_data
ArchiveExtract(p) ==
  /\ pc[p] = "idle"
  /\ \E video_id \in 1 .. MaxArchives, redirected \in BOOLEAN :
       LET fetched == [NoOp EXCEPT !.op = "archive",
                                   !.calls = <<Call("page", video_id, NoHeader)>>,
                                   !.at = now]
       IN last' = [last EXCEPT ![p] =
            IF redirected
            THEN [fetched EXCEPT !.outcome = "LoginRequired"]
            ELSE [fetched EXCEPT !.calls = Append(@, Call("manifest", video_id, NoHeader)),
                                 !.outcome = "was_live", !.id = video_id]]
  /\ pc' = [pc EXCEPT ![p] = "done"]
  /\ UNCHANGED <<cookies, now, data, writer>>

UserArchivesExtract(p) ==
  /\ pc[p] = "idle"
  /\ \E n \in 0 .. MaxArchives, redirected \in BOOLEAN :
       LET fetched == [NoOp EXCEPT !.op = "archives",
                                   !.calls = <<Call("page", 0, NoHeader)>>,
                                   !.at = now]
       IN last' = [last EXCEPT ![p] =
            IF redirected
            THEN [fetched EXCEPT !.outcome = "LoginRequired"]
            ELSE [fetched EXCEPT !.calls = @ \o [i \in 1 .. n |-> Call("manifest", i, NoHeader)],
                                 !.outcome = "playlist"]]
  /\ pc' = [pc EXCEPT ![p] = "done"]
  /\ UNCHANGED <<cookies, now, data, writer>>

\* the operation hands its result (or its exception) to the caller, and the
\* extractor is ready for the next request
Return(p) ==
  /\ pc[p] = "done"
  /\ pc' = [pc EXCEPT ![p] = "idle"]
  /\ last' = [last EXCEPT ![p] = NoOp]
  /\ data' = [data EXCEPT ![p] = NoData]
  /\ UNCHANGED <<cookies, now, writer>>

Next ==
  \/ Tick
  \/ \E p \in Procs : PerformLoginCheck(p)
  \/ \E p \in Procs : PerformLoginCall(p)
  \/ \E p \in Procs : SetTokenCookie(p)
  \/ \E p \in Procs : SetTokenExpCookie(p)
  \/ \E p \in Procs : SetRefreshCookie(p)
  \/ \E p \in Procs : SetRefreshExpCookie(p)
  \/ \E p \in Procs : ChannelExtract(p)
  \/ \E p \in Procs : RoomRedirect(p)
  \/ \E p \in Procs : RoomExtract(p)
  \/ \E p \in Procs : ArchiveExtract(p)
  \/ \E p \in Procs : UserArchivesExtract(p)
  \/ \E p \in Procs : Return(p)

Spec == Init /\ [][Next]_vars

\* two extraction requests that log in against the same cookie store
InitConcurrent ==
  /\ cookies \in InitStores
  /\ pc = [p \in Procs |-> "idle"]
  /\ InitRest

NextConcurrent ==
  \/ \E p \in Procs : PerformLoginCheck(p)
  \/ \E p \in Procs : PerformLoginCall(p)
  \/ \E p \in Procs : SetTokenCookie(p)
  \/ \E p \in Procs : SetTokenExpCookie(p)
  \/ \E p \in Procs : SetRefreshCookie(p)
  \/ \E p \in Procs : SetRefreshExpCookie(p)
  \/ \E p \in Procs : Return(p)

SpecConcurrent == InitConcurrent /\ [][NextConcurrent]_vars

\* the same program started from a store whose expiry and refresh-token
\* cookies are both present or both absent
InitPaired ==
  /\ cookies \in PairedStores
  /\ pc = [p \in Procs |-> IF p = 1 THEN "idle" ELSE "off"]
  /\ InitRest

SpecPaired == InitPaired /\ [][Next]_vars

\* ================================================================ properties
\* the endpoints called so far by the operation that process p is running
Eps(p) == {last[p].calls[i].ep : i \in DOMAIN last[p].calls}

CountEp(p, ep) == Cardinality({i \in DOMAIN last[p].calls : last[p].calls[i].ep = ep})

\* the running operation of p has read the bearer token
BearerRead(p) == last[p].bearer # NoHeader

InLogin(p) ==
  pc[p] \in {"login_call", "set_token", "set_token_exp", "set_refresh", "set_refresh_exp"}

Protected == {"rooms", "playback-url"}

\* C1: whenever the bearer token was obtained while the stored expiry was in
\* the past and a non-empty refresh token was stored, exactly one refresh call
\* (POST /api/auth/token) was made
C1_ExpiredTokenIsRefreshed ==
  \A p \in Procs :
    ( /\ pc[p] = "done"
      /\ BearerRead(p)
      /\ TokenKey \in DOMAIN cookies
      /\ TokenExpKey \in DOMAIN cookies
      /\ MsLess(cookies[TokenExpKey], Ms(last[p].at))
      /\ RefreshKey \in DOMAIN cookies
      /\ cookies[RefreshKey] # <<>> )
    => CountEp(p, "auth/token") = 1

\* the stored token has not expired at time t, by the expiry cookie or by the
\* exp claim of the token itself
ExpiryInFuture(t) ==
  /\ TokenKey \in DOMAIN cookies
  /\ \/ TokenExpKey \in DOMAIN cookies /\ MsLess(Ms(t), cookies[TokenExpKey])
     \/ t < _parse_token_expire(unquote(cookies[TokenKey]))

\* C2: when the stored token's expiry is in the future, obtaining the bearer
\* token makes no refresh call, returns the URL-decoded value of the token
\* cookie, and the step that reads it leaves every cookie as it was
C2_ValidTokenReturnedUnchanged ==
  /\ [](\A p \in Procs :
          (pc[p] = "done" /\ BearerRead(p) /\ ExpiryInFuture(last[p].at))
          => /\ CountEp(p, "auth/token") = 0
             /\ last[p].bearer = unquote(cookies[TokenKey])
             /\ \A i \in DOMAIN last[p].calls :
                  last[p].calls[i].ep \in Protected
                  => last[p].calls[i].auth = unquote(cookies[TokenKey]))
  /\ [][\A p \in Procs :
          (~BearerRead(p) /\ last'[p].bearer # NoHeader) => cookies' = cookies]_vars

C2_Witness ==
  \E p \in Procs :
    /\ pc[p] = "done"
    /\ BearerRead(p)
    /\ ExpiryInFuture(last[p].at)
    /\ cookies[TokenKey] = <<"Bearer", "%20", "jwt7200">>
    /\ last[p].bearer = <<"Bearer", " ", "jwt7200">>
    /\ last[p].warnings = <<>>

\* C3: when there is no token cookie, obtaining the bearer token fails with
\* AuthenticationRequired and no protected call is issued with an empty or
\* missing Authorization header
C3_NoTokenFails ==
  \A p \in Procs :
    (pc[p] = "done" /\ BearerRead(p) /\ TokenKey \notin DOMAIN cookies)
    => /\ last[p].outcome = "AuthenticationRequired"
       /\ \A i \in DOMAIN last[p].calls :
            last[p].calls[i].ep \in Protected
            => last[p].calls[i].auth \notin {None, NoHeader, <<>>}

\* an entry of the streams response with a start time that is not null
NonNullStart(v) == v.actualStartedAt # JNull \/ v.startedAt # JNull

\* an entry with a start time that is neither null nor the empty string
TruthyStart(v) ==
  \/ v.actualStartedAt \notin {JNull, ""}
  \/ v.startedAt \notin {JNull, ""}

\* C4: a channel resolution whose streams response has no entry with a non-null
\* actualStartedAt or startedAt ends in UserNotLive, having made the streams
\* query and nothing else: no bearer-token read and no further call
C4_NotLiveStopsAfterQuery ==
  \A p \in Procs :
    ( /\ last[p].op = "channel"
      /\ \A i \in DOMAIN last[p].streams : ~NonNullStart(last[p].streams[i]) )
    => /\ pc[p] = "done"
       /\ last[p].outcome = "UserNotLive"
       /\ last[p].calls = <<Call("streams", 0, NoHeader)>>
       /\ ~BearerRead(p)
       /\ last[p].warnings = <<>>

C4_Witness ==
  \E p \in Procs :
    /\ pc[p] = "done"
    /\ last[p].op = "channel"
    /\ Len(last[p].streams) = MaxStreams
    /\ \A i \in DOMAIN last[p].streams : ~NonNullStart(last[p].streams[i])
    /\ last[p].outcome = "UserNotLive"

\* the first entry of the response that the filter of the code lets through
SelectedIndex(streams) ==
  CHOOSE i \in DOMAIN streams :
    TruthyStart(streams[i]) /\ \A j \in 1 .. i - 1 : ~TruthyStart(streams[j])

HasSelected(streams) == \E i \in DOMAIN streams : TruthyStart(streams[i])

\* C5: in a channel resolution whose selected entry has streamingType "withny"
\* the playback-url endpoint is never called and the finished resolution has
\* called the rooms endpoint; for any other streamingType the playback-url
\* endpoint is called and the rooms endpoint never is
C5_BackendBranches ==
  \A p \in Procs :
    (last[p].op = "channel" /\ HasSelected(last[p].streams))
    => IF last[p].streams[SelectedIndex(last[p].streams)].streamingType = "withny"
       THEN /\ "playback-url" \notin Eps(p)
            /\ pc[p] \in {"redirect", "done"}
            /\ pc[p] = "done" => CountEp(p, "rooms") = 1
       ELSE /\ CountEp(p, "playback-url") = 1
            /\ "rooms" \notin Eps(p)
            /\ pc[p] = "done"

C5_Witness ==
  \E p \in Procs :
    /\ pc[p] = "done"
    /\ last[p].op = "channel"
    /\ HasSelected(last[p].streams)
    /\ last[p].streams[SelectedIndex(last[p].streams)].streamingType = "withny"
    /\ "rooms" \in Eps(p)
    /\ "playback-url" \notin Eps(p)

\* the exp claim of the token of a login response
ResponseExp(resp) == JwtClaims[resp.token[1]]

\* C6: a login bootstrap started while the stored token is valid for more than
\* one hour makes no login call and leaves the cookies unchanged; otherwise it
\* makes exactly one login call and overwrites the four credential cookies
\* from the response
C6_LoginSkipOrOverwrite ==
  /\ [][\A p \in Procs :
          (pc[p] = "idle" /\ last'[p].op = "login")
          => IF now + MarginSeconds
                  < _parse_token_expire(IF TokenKey \in DOMAIN cookies
                                        THEN unquote(cookies[TokenKey]) ELSE None)
             THEN /\ pc'[p] = "done"
                  /\ last'[p].calls = <<>>
                  /\ cookies' = cookies
             ELSE pc'[p] = "login_call"]_vars
  /\ [](\A p \in Procs :
          /\ (InLogin(p) \/ pc[p] = "done") /\ last[p].op = "login"
             => CountEp(p, "login") = (IF pc[p] = "login_call" \/ last[p].outcome = "skipped"
                                       THEN 0 ELSE 1)
          /\ (pc[p] = "done" /\ last[p].op = "login" /\ last[p].outcome # "skipped")
             => /\ CredentialKeys \subseteq DOMAIN cookies
                /\ cookies[TokenKey] = quote(data[p].tokenType \o <<" ">> \o data[p].token)
                /\ cookies[TokenExpKey] = Ms(ResponseExp(data[p]))
                /\ cookies[RefreshKey] = data[p].refreshToken
                /\ ~MsLess(cookies[RefreshExpKey], Ms(ResponseExp(data[p]) + RefreshLifetime))
                /\ \A k \in CredentialKeys : writer[k] = p)

C6_Witness ==
  \E p \in Procs :
    /\ pc[p] = "done"
    /\ last[p].op = "login"
    /\ last[p].outcome = "ok"
    /\ last[p].at > 0
    /\ cookies[TokenKey] = <<"Bearer", "%20", "jwt10800">>
    /\ cookies[RefreshKey] = <<"rB">>

\* C7: started with the expiry and refresh-token cookies both present or both
\* absent, they are both present or both absent whenever no login is under
\* way, and only the cookie writes of the login bootstrap change the store
C7_ExpiryAndRefreshPaired ==
  /\ []((\A p \in Procs : ~InLogin(p))
        => (TokenExpKey \in DOMAIN cookies <=> RefreshKey \in DOMAIN cookies))
  /\ [][cookies' # cookies
        => \E p \in Procs :
             /\ pc[p] \in {"set_token", "set_token_exp", "set_refresh", "set_refresh_exp"}
             /\ pc'[p] # pc[p]
             /\ last[p].op = "login"]_vars

C7_Witness ==
  \E p \in Procs :
    /\ pc[p] = "done"
    /\ last[p].op = "login"
    /\ last[p].outcome = "ok"
    /\ TokenExpKey \in DOMAIN cookies
    /\ RefreshKey \in DOMAIN cookies

\* C8: after a login whose token has exp E the stored refresh-token expiry R
\* satisfies (E + 2505600) * 1000 <= R < (E + 2505600) * 1000 + 1000 and the
\* stored token expiry is E * 1000
C8_JitterBelowOneSecond ==
  \A p \in Procs :
    (pc[p] = "done" /\ last[p].op = "login" /\ last[p].outcome = "ok")
    => LET E == ResponseExp(data[p])
       IN /\ ~MsLess(cookies[RefreshExpKey], Ms(E + RefreshLifetime))
          /\ MsLess(cookies[RefreshExpKey], Ms(E + RefreshLifetime + 1))
          /\ cookies[TokenExpKey] = Ms(E)

\* both requests have logged in and finished
BothLoggedIn ==
  \A p \in Procs : pc[p] = "done" /\ last[p].op = "login" /\ last[p].outcome = "ok"

\* the value that the response of request p gives to cookie k
FromResponse(p, k) ==
  IF k = TokenKey THEN quote(data[p].tokenType \o <<" ">> \o data[p].token)
  ELSE IF k = TokenExpKey THEN Ms(ResponseExp(data[p]))
  ELSE data[p].refreshToken

\* C9 as stated: once two concurrent logins have finished, the token, the
\* token expiry and the refresh token all come from the response of one
\* single request
C9_OneRequestWins ==
  BothLoggedIn
  => \E p \in Procs :
       \A k \in {TokenKey, TokenExpKey, RefreshKey} : cookies[k] = FromResponse(p, k)

\* C9 as amended: once two concurrent logins have finished, each credential
\* cookie by itself holds the value from the response of the request that
\* wrote that cookie last (different cookies may come from different requests)
C9_LastWriterWinsPerCookie ==
  BothLoggedIn
  => /\ \A k \in {TokenKey, TokenExpKey, RefreshKey} :
          writer[k] \in Procs /\ cookies[k] = FromResponse(writer[k], k)
     /\ writer[RefreshExpKey] \in Procs
     /\ cookies[RefreshExpKey].s - ResponseExp(data[writer[RefreshExpKey]]) - RefreshLifetime
          \in {0, 1}

C9_Witness ==
  /\ BothLoggedIn
  /\ writer[TokenKey] # writer[RefreshKey]
  /\ cookies[TokenKey] # FromResponse(writer[RefreshKey], TokenKey)
  /\ cookies[RefreshKey] # FromResponse(writer[TokenKey], RefreshKey)

\* C10 as stated: the active stream of a channel resolution is the first entry
\* of the response with a non-null actualStartedAt or startedAt
C10_FirstNonNullChosen ==
  \A p \in Procs :
    (last[p].op = "channel" /\ \E i \in DOMAIN last[p].streams : NonNullStart(last[p].streams[i]))
    => LET first == CHOOSE i \in DOMAIN last[p].streams :
                      /\ NonNullStart(last[p].streams[i])
                      /\ \A j \in 1 .. i - 1 : ~NonNullStart(last[p].streams[j])
       IN /\ last[p].outcome # "UserNotLive"
          /\ \A i \in DOMAIN last[p].calls :
               last[p].calls[i].ep \in Protected
               => last[p].calls[i].id = last[p].streams[first].uuid

\* C10 as amended: the active stream is the first entry of the response with an
\* actualStartedAt or startedAt that is neither null nor empty; every
\* protected call and the returned id carry that entry's uuid
C10_FirstStartedChosen ==
  \A p \in Procs :
    (last[p].op = "channel" /\ HasSelected(last[p].streams))
    => LET chosen == last[p].streams[SelectedIndex(last[p].streams)].uuid
       IN /\ last[p].outcome # "UserNotLive"
          /\ last[p].outcome \in {"url_result", "is_live"} => last[p].id = chosen
          /\ \A i \in DOMAIN last[p].calls :
               last[p].calls[i].ep \in Protected \cup {"manifest"}
               => last[p].calls[i].id = chosen

C10_Witness ==
  \E p \in Procs :
    /\ pc[p] = "done"
    /\ last[p].op = "channel"
    /\ Len(last[p].streams) = 2
    /\ ~TruthyStart(last[p].streams[1])
    /\ TruthyStart(last[p].streams[2])
    /\ last[p].outcome = "is_live"
    /\ last[p].id = 2
====
